---- MODULE Spec2Model ----
(***************************************************************************)
(* A model of the Shadow core: the line-oriented TypeScript scanner and    *)
(* the name-keyed structural diff (ast_diff), the workspace dependency     *)
(* graph with its breadth-first impact analysis (dep_graph), and the       *)
(* Engine that holds one graph snapshot (engine).                          *)
(*                                                                         *)
(* Text is modelled as it is in the program: a string is a sequence of     *)
(* one-character strings, and every scanner rule is computed on the        *)
(* characters (trim, starts_with, find, split_whitespace, ...).            *)
(***************************************************************************)
EXTENDS Integers, Sequences, FiniteSets, TLC

VARIABLES
    fs,         \* the file system: full path -> Absent, Unreadable or the file's text;
                \* for sessions, the current_session record of the store on disk
    builder,    \* a DependencyGraphBuilder used directly: graph + workspace_root
    query,      \* the changed-file list the caller passes to analyze_impact
    returned,   \* what the builder's last call returned: Ok, Err or an ImpactAnalysis;
                \* for sessions, the last session call that returned Ok
    engine,     \* the Engine: dep_graph (None or a builder); built: a build has succeeded;
                \* for sessions, its fields db, session and diff_tracker
    edits,      \* the number of changes made to the workspace's files so far;
                \* for sessions, the number of sessions made so far
    reply,      \* what the last Engine operation returned to its caller
    request,    \* the diff request: file_path, old_content, new_content
    response    \* what compute_diff, or the parser, returned for the request

vars == <<fs, builder, query, returned, engine, edits, reply, request, response>>

(***************************************************************************)
(* Rust's str and Path operations, on sequences of characters.  Positions  *)
(* are 1-based here (0 = not found); Rust's byte offsets are 0-based.      *)
(***************************************************************************)
NoValue == <<"None">>

\* A HashMap with no entry.
EmptyMap == << >>

MinOf(S) == CHOOSE x \in S : \A y \in S : x <= y
MaxOf(S) == CHOOSE x \in S : \A y \in S : x >= y

\* char::is_whitespace on the characters the inputs use.
is_whitespace(c) == c \in {" ", "\t", "\n", "\r"}

starts_with(s, p) == Len(p) <= Len(s) /\ SubSeq(s, 1, Len(p)) = p

ends_with(s, p) == Len(p) <= Len(s) /\ SubSeq(s, Len(s) - Len(p) + 1, Len(s)) = p

\* str::find: the position of the first occurrence of p in s, 0 when there is none.
find(s, p) ==
    LET hits == {i \in 1..(Len(s) - Len(p) + 1) : SubSeq(s, i, i + Len(p) - 1) = p}
    IN  IF hits = {} THEN 0 ELSE MinOf(hits)

contains(s, p) == find(s, p) # 0

\* str::rfind of one character.
rfind_char(s, c) ==
    LET hits == {i \in 1..Len(s) : s[i] = c}
    IN  IF hits = {} THEN 0 ELSE MaxOf(hits)

\* &s[i..] of Rust, with i the 1-based position of the first character kept.
from_pos(s, i) == SubSeq(s, i, Len(s))

trim(s) ==
    LET keep == {i \in 1..Len(s) : ~is_whitespace(s[i])}
    IN  IF keep = {} THEN << >> ELSE SubSeq(s, MinOf(keep), MaxOf(keep))

trim_start(s) ==
    LET keep == {i \in 1..Len(s) : ~is_whitespace(s[i])}
    IN  IF keep = {} THEN << >> ELSE SubSeq(s, MinOf(keep), Len(s))

\* str::trim_matches(c): strips every leading and every trailing c.
trim_matches(s, c) ==
    LET keep == {i \in 1..Len(s) : s[i] # c}
    IN  IF keep = {} THEN << >> ELSE SubSeq(s, MinOf(keep), MaxOf(keep))

\* The text of s before position n, all of s when n is 0.
text_before(s, n) == IF n = 0 THEN s ELSE SubSeq(s, 1, n - 1)

\* s.split(c).next(): the text before the first c (all of s when it has none).
split_next(s, c) == text_before(s, find(s, <<c>>))

\* s.split(sep) for a separator string sep: parts[0] and the number of parts.
split_first_part(s, sep) == text_before(s, find(s, sep))

RECURSIVE tokens_of(_)
split_whitespace(s) == tokens_of(trim_start(s))

\* The position of the first whitespace of t, Len(t) + 1 when it has none.
first_whitespace(t) ==
    LET ws == {i \in 1..Len(t) : is_whitespace(t[i])}
    IN  IF ws = {} THEN Len(t) + 1 ELSE MinOf(ws)

\* The tokens of t, which starts with its first token that ends before position n.
token_and_rest(t, n) == <<SubSeq(t, 1, n - 1)>> \o split_whitespace(SubSeq(t, n, Len(t)))

tokens_of(t) == IF t = << >> THEN << >> ELSE token_and_rest(t, first_whitespace(t))

\* str::replace(pat, ""): every non-overlapping occurrence of pat removed, left to right.
RECURSIVE replace_with_empty(_, _)
replace_with_empty(s, pat) ==
    IF Len(s) < Len(pat) THEN s
    ELSE IF starts_with(s, pat) THEN replace_with_empty(from_pos(s, Len(pat) + 1), pat)
    ELSE <<s[1]>> \o replace_with_empty(Tail(s), pat)

\* str::replace of one character by another.
replace_char(s, a, b) == [i \in 1..Len(s) |-> IF s[i] = a THEN b ELSE s[i]]

\* str::lines: split at "\n", a trailing "\r" of a line dropped, no empty last line.
strip_cr(s) == IF Len(s) > 0 /\ s[Len(s)] = "\r" THEN SubSeq(s, 1, Len(s) - 1) ELSE s

RECURSIVE lines(_)
\* The lines of the non-empty s whose first "\n" is at position n (0: none).
line_and_rest(s, n) ==
    IF n = 0 THEN <<strip_cr(s)>>
    ELSE <<strip_cr(SubSeq(s, 1, n - 1))>> \o lines(from_pos(s, n + 1))

lines(s) == IF s = << >> THEN << >> ELSE line_and_rest(s, find(s, <<"\n">>))

\* Vec::join("\n") of the callers that assemble a text from its lines.
RECURSIVE join_lines(_)
join_lines(ls) ==
    IF ls = << >> THEN << >>
    ELSE IF Len(ls) = 1 THEN ls[1]
    ELSE ls[1] \o <<"\n">> \o join_lines(Tail(ls))

(***************************************************************************)
(* The file system the workspace scan walks.  A file is Absent, Unreadable *)
(* (read_to_string fails) or holds a text.  Directories are the parents of *)
(* the files present; the workspace root itself always exists.             *)
(***************************************************************************)
Absent == <<"Absent">>
Unreadable == <<"Unreadable">>

WorkspaceRoot == <<"w", "s">>
MissingRoot == <<"g", "o", "n", "e">>

File_a == <<"w", "s", "/", "a", ".", "t", "s">>
File_b == <<"w", "s", "/", "b", ".", "t", "s">>
File_c == <<"w", "s", "/", ".", "c", ".", "t", "s">>
File_d == <<"w", "s", "/", "l", "i", "b", "/", ".", "d", ".", "t", "s">>
File_m == <<"w", "s", "/", "n", "o", "d", "e", "_", "m", "o", "d", "u", "l", "e", "s", "/", "m", ".", "t", "s">>
File_n == <<"w", "s", "/", "n", "o", "t", "e", "s", ".", "m", "d">>

\* The texts a file of the workspace may hold.
Text_a1 == <<"e", "x", "p", "o", "r", "t", " ", "f", "u", "n", "c", "t", "i", "o", "n", " ", "f", "o", "o", "(", ")", "{", "}">>
Text_a2 == <<"i", "m", "p", "o", "r", "t", " ", "d", " ", "f", "r", "o", "m", " ", "'", ".", "d", "'", "\n", "e", "x", "p", "o", "r", "t", " ", "c", "o", "n", "s", "t", " ", "a", " ", "=", " ", "1">>
Text_b1 == <<"i", "m", "p", "o", "r", "t", " ", "{", " ", "f", "o", "o", " ", "}", " ", "f", "r", "o", "m", " ", "'", ".", "/", "a", "'", ";", "\n", "e", "x", "p", "o", "r", "t", " ", "f", "u", "n", "c", "t", "i", "o", "n", " ", "b", "a", "r", "(", ")", "{", " ", "f", "o", "o", "(", ")", ";", " ", "}">>
Text_b2 == <<"i", "m", "p", "o", "r", "t", " ", "{", " ", "f", "o", "o", " ", "}", " ", "f", "r", "o", "m", " ", "'", ".", "/", "a", "'", "\n", "c", "o", "n", "s", "t", " ", "c", " ", "=", " ", "r", "e", "q", "u", "i", "r", "e", "(", "'", ".", "c", "'", ")", ";">>
Text_c1 == <<"e", "x", "p", "o", "r", "t", " ", "c", "l", "a", "s", "s", " ", "C", " ", "{", "}">>
Text_c2 == <<"i", "m", "p", "o", "r", "t", " ", "d", " ", "f", "r", "o", "m", " ", "\"", ".", "d", "\"">>
Text_d1 == <<"i", "m", "p", "o", "r", "t", " ", "c", " ", "f", "r", "o", "m", " ", "'", ".", "c", "'">>
Text_d2 == <<"e", "x", "p", "o", "r", "t", " ", "l", "e", "t", " ", "d", " ", "=", " ", "1">>

Files == {File_a, File_b, File_c, File_d, File_m, File_n}

TextsOf(f) ==
    CASE f = File_a -> {Text_a1, Text_a2}
      [] f = File_b -> {Text_b1, Text_b2}
      [] f = File_c -> {Text_c1, Text_c2}
      [] f = File_d -> {Text_d1, Text_d2}
      [] OTHER      -> {}

\* The files under node_modules and the notes are never read by a scan: they stay
\* unreadable, so a scan that did read them would fail.
StatesOf(f) ==
    IF f \in {File_m, File_n} THEN {Unreadable}
    ELSE {Absent, Unreadable} \cup TextsOf(f)

FileSystems ==
    {[f \in Files |->
        CASE f = File_a -> a [] f = File_b -> b [] f = File_c -> c [] f = File_d -> d
          [] OTHER -> Unreadable] :
     a \in StatesOf(File_a), b \in StatesOf(File_b),
     c \in StatesOf(File_c), d \in StatesOf(File_d)}

\* Path::components: "/" separates, empty pieces and inner "." pieces vanish, a
\* leading "/" is the RootDir component and a leading "." the CurDir component.
\* The components of path, whose pieces between "/" are raw.
normal_components(path, raw) ==
    (IF starts_with(path, <<"/">>) THEN <<(<<"/">>)>>
     ELSE IF Len(raw) > 0 /\ raw[1] = <<".">> THEN <<(<<".">>)>>
     ELSE << >>)
        \o SelectSeq(raw, LAMBDA c : c # << >> /\ c # <<".">>)

RECURSIVE split_slash(_)
piece_and_rest(s, n) ==
    IF n = 0 THEN <<s>>
    ELSE <<SubSeq(s, 1, n - 1)>> \o split_slash(from_pos(s, n + 1))

split_slash(s) == piece_and_rest(s, find(s, <<"/">>))

components(path) == normal_components(path, split_slash(path))

\* A table's value at x when the table holds x, else the value computed.  The
\* tables of this module hold, for the texts and paths of the workspace, the
\* values of the operators they name, so that a step does not scan the
\* characters again.
Lookup(table, x, computed) == IF x \in DOMAIN table THEN table[x] ELSE computed

Roots == {WorkspaceRoot, MissingRoot}

Directories == {<<"w", "s", "/", "l", "i", "b">>, <<"w", "s", "/", "n", "o", "d", "e", "_", "m", "o", "d", "u", "l", "e", "s">>}

ComponentsOf == [p \in Files \cup Directories \cup Roots |-> components(p)] @@ EmptyMap

path_components(path) == Lookup(ComponentsOf, path, components(path))

\* The last of the components cs when it is a normal one.
last_normal(cs) ==
    IF cs = << >> \/ cs[Len(cs)] \in {<<"/">>, <<".">>, <<".", ".">>} THEN NoValue
    ELSE cs[Len(cs)]

\* Path::file_name: the last component when it is a normal one.
file_name(path) == last_normal(path_components(path))

\* The text of name after its "." at position dot; None without a "." past the start.
after_dot(name, dot) == IF dot <= 1 THEN NoValue ELSE from_pos(name, dot + 1)

extension_of(name) == IF name = NoValue THEN NoValue ELSE after_dot(name, rfind_char(name, "."))

\* Path::extension: the text after the last "." of the file name; None when the
\* file name has no "." or only a leading one.
extension(path) == extension_of(file_name(path))

\* PathBuf rendered back to text: components joined by "/".
RECURSIVE join_components(_)
join_components(cs) ==
    IF cs = << >> THEN << >>
    ELSE IF Len(cs) = 1 THEN cs[1]
    ELSE IF cs[1] = <<"/">> THEN cs[1] \o join_components(Tail(cs))
    ELSE cs[1] \o <<"/">> \o join_components(Tail(cs))

\* The components bc lead the components pc.
leads(bc, pc) == Len(bc) <= Len(pc) /\ SubSeq(pc, 1, Len(bc)) = bc

strip_components(pc, bc) ==
    IF leads(bc, pc) THEN join_components(SubSeq(pc, Len(bc) + 1, Len(pc))) ELSE NoValue

\* Path::strip_prefix: Some(rest) when base's components lead path's, else None.
strip_prefix(path, base) == strip_components(path_components(path), path_components(base))

strictly_leads(dc, pc) == Len(dc) < Len(pc) /\ leads(dc, pc)

\* Path::parent and Path::join on the paths of the model's file system.
\* path is inside the directory dir.
is_under(path, dir) == strictly_leads(path_components(dir), path_components(path))

(***************************************************************************)
(* dep_graph.rs: what one file contributes to the graph.                   *)
(***************************************************************************)
\* An Option<String> as a sequence of at most one string.
Some(x) == <<x>>
None == << >>

\* The extensions resolve_import_path leaves alone, in the order it tests them.
KnownExtensions == <<<<".", "t", "s">>, <<".", "j", "s">>, <<".", "t", "s", "x">>, <<".", "j", "s", "x">>>>

resolve_import_path(import_path) ==
    IF \E i \in 1..Len(KnownExtensions) : ends_with(import_path, KnownExtensions[i])
    THEN import_path
    ELSE import_path \o <<".", "t", "s">>

\* The import statement branch of extract_imports, for one trimmed line.
import_statement(trimmed) ==
    IF ~starts_with(trimmed, <<"i", "m", "p", "o", "r", "t", " ">>) THEN None
    ELSE LET from == find(trimmed, <<" ", "f", "r", "o", "m", " ">>)
         IN  IF from = 0 THEN None
             ELSE LET module_part == from_pos(trimmed, from + 6)
                      module_name == trim_matches(
                                         trim_matches(
                                             trim_matches(trim(module_part), "'"),
                                             "\""),
                                         ";")
                  IN  IF starts_with(module_name, <<".">>)
                      THEN Some(resolve_import_path(module_name))
                      ELSE None

\* The require branch of extract_imports, for one trimmed line.
require_statement(trimmed) ==
    LET require_start == find(trimmed, <<"r", "e", "q", "u", "i", "r", "e", "(">>)
    IN  IF require_start = 0 THEN None
        ELSE LET after_require == from_pos(trimmed, require_start + 8)
                 quote_end     == find(after_require, <<")">>)
             IN  IF quote_end = 0 THEN None
                 ELSE LET module_name == trim_matches(
                                             trim_matches(
                                                 SubSeq(after_require, 1, quote_end - 1),
                                                 "'"),
                                             "\"")
                      IN  IF starts_with(module_name, <<".">>)
                          THEN Some(resolve_import_path(module_name))
                          ELSE None

RECURSIVE imports_of_lines(_)
imports_of_lines(ls) ==
    IF ls = << >> THEN << >>
    ELSE LET trimmed == trim(Head(ls))
         IN  import_statement(trimmed) \o require_statement(trimmed)
                 \o imports_of_lines(Tail(ls))

extract_imports(content) == imports_of_lines(lines(content))

\* The first position i of parts with parts[i] in words and a part after it, or 0.
keyword_position(parts, words) ==
    LET hits == {i \in 1..Len(parts) : parts[i] \in words /\ i + 1 <= Len(parts)}
    IN  IF hits = {} THEN 0 ELSE MinOf(hits)

\* The part after the keyword at position i, cut at the character c.
name_after(parts, i, c) == IF i = 0 THEN None ELSE Some(split_next(parts[i + 1], c))

function_name_in(parts) == name_after(parts, keyword_position(parts, {<<"f", "u", "n", "c", "t", "i", "o", "n">>}), "(")

extract_function_name_from_export(line) == function_name_in(split_whitespace(line))

class_name_after(parts, i) ==
    IF i = 0 THEN None ELSE Some(split_next(split_next(parts[i + 1], "{"), " "))

class_name_in(parts) == class_name_after(parts, keyword_position(parts, {<<"c", "l", "a", "s", "s">>}))

extract_class_name_from_export(line) == class_name_in(split_whitespace(line))

var_name_after(parts, i) ==
    IF i = 0 THEN None ELSE Some(trim(split_next(parts[i + 1], "=")))

var_name_in(parts) == var_name_after(parts, keyword_position(parts, {<<"c", "o", "n", "s", "t">>, <<"l", "e", "t">>, <<"v", "a", "r">>}))

extract_var_name_from_export(line) == var_name_in(split_whitespace(line))

export_statement(trimmed) ==
    IF ~starts_with(trimmed, <<"e", "x", "p", "o", "r", "t", " ">>) THEN None
    ELSE IF contains(trimmed, <<"f", "u", "n", "c", "t", "i", "o", "n", " ">>) THEN extract_function_name_from_export(trimmed)
    ELSE IF contains(trimmed, <<"c", "l", "a", "s", "s", " ">>) THEN extract_class_name_from_export(trimmed)
    ELSE IF contains(trimmed, <<"c", "o", "n", "s", "t", " ">>) \/ contains(trimmed, <<"l", "e", "t", " ">>)
            \/ contains(trimmed, <<"v", "a", "r", " ">>)
         THEN extract_var_name_from_export(trimmed)
    ELSE None

RECURSIVE exports_of_lines(_)
exports_of_lines(ls) ==
    IF ls = << >> THEN << >>
    ELSE export_statement(trim(Head(ls))) \o exports_of_lines(Tail(ls))

extract_exports(content) == exports_of_lines(lines(content))

\* The extensions a workspace scan reads.
SupportedExtensions == {<<"t", "s">>, <<"j", "s">>, <<"t", "s", "x">>, <<"j", "s", "x">>}

is_supported_file(path) == extension(path) \in SupportedExtensions

\* The directory names scan_workspace does not enter.
SkippedDirectories == {<<".", "s", "h", "a", "d", "o", "w">>, <<"n", "o", "d", "e", "_", "m", "o", "d", "u", "l", "e", "s">>, <<".", "g", "i", "t">>}

\* .unwrap_or(file_path).to_string_lossy().replace('\\', "/")
slashed(file_path, stripped) ==
    replace_char(IF stripped = NoValue THEN file_path ELSE stripped, "\\", "/")

get_relative_path(workspace_root, file_path) ==
    slashed(file_path, strip_prefix(file_path, workspace_root))

AllTexts == UNION {TextsOf(f) : f \in Files}

ImportsOf == [t \in AllTexts |-> extract_imports(t)] @@ EmptyMap
ExportsOf == [t \in AllTexts |-> extract_exports(t)] @@ EmptyMap
RelativePathOf == [p \in Roots \X Files |-> get_relative_path(p[1], p[2])] @@ EmptyMap

\* The GraphNode analyze_file registers for file_path holding content.
analyze_file(workspace_root, file_path, content) ==
    [file_path |-> Lookup(RelativePathOf, <<workspace_root, file_path>>,
                          get_relative_path(workspace_root, file_path)),
     imports   |-> Lookup(ImportsOf, content, extract_imports(content)),
     exports   |-> Lookup(ExportsOf, content, extract_exports(content))]

\* Path::exists for a directory.
dir_exists(files, dir) ==
    \/ path_components(dir) = path_components(WorkspaceRoot)
    \/ \E f \in Files : files[f] # Absent /\ is_under(f, dir)

\* read_dir(dir): the paths of the entries directly in dir.
read_dir(files, dir) ==
    {join_components(SubSeq(path_components(f), 1, Len(path_components(dir)) + 1)) :
        f \in {g \in Files : files[g] # Absent /\ is_under(g, dir)}}

\* Path::is_dir for an entry of read_dir.
is_dir(files, path) == \E f \in Files : files[f] # Absent /\ is_under(f, path)

(***************************************************************************)
(* scan_workspace.  read_dir yields the entries in an order the operating  *)
(* system picks.  A scan stops at the first error (the ? operator), so a   *)
(* failed scan has registered the files it visited before the error: an    *)
(* outcome is [ok, found], found being the files analyze_file registered.  *)
(***************************************************************************)
RECURSIVE scan_workspace(_, _)
\* The files registered under the entry e by a scan of it that passed.
found_under(outcomes, e) == UNION {o.found : o \in {x \in outcomes[e] : x.ok}}

\* What the loop over the entries returns: outcomes[e] is what the scan of the
\* entry e may return, passing the entries whose scan returns Ok.
scan_outcomes(entries, outcomes, passing) ==
    IF passing = entries
    THEN {[ok |-> TRUE, found |-> UNION {found_under(outcomes, e) : e \in entries}]}
    ELSE UNION {
           {[ok |-> FALSE,
             found |-> bad.found \cup UNION {found_under(outcomes, b) : b \in before}] :
               bad \in outcomes[e], before \in SUBSET passing} :
           e \in entries \ passing}

scan_each(entries, outcomes) ==
    scan_outcomes(entries, outcomes, {e \in entries : \E o \in outcomes[e] : o.ok})

scan_entry(files, path) ==
    IF is_dir(files, path)
    THEN IF file_name(path) \in SkippedDirectories
         THEN {[ok |-> TRUE, found |-> {}]}
         ELSE scan_workspace(files, path)
    ELSE IF is_supported_file(path)
         \* analyze_file: read_to_string(file_path)?
         THEN IF files[path] = Unreadable
              THEN {[ok |-> FALSE, found |-> {}]}
              ELSE {[ok |-> TRUE, found |-> {path}]}
         ELSE {[ok |-> TRUE, found |-> {}]}

scan_entries(files, entries) ==
    scan_each(entries, [e \in entries |-> scan_entry(files, e)])

\* scan_workspace without its test of path.exists(): read_dir fails on a
\* directory that is not there.
scan_workspace_unchecked(files, dir) ==
    IF ~dir_exists(files, dir) THEN {[ok |-> FALSE, found |-> {}]}
    ELSE scan_entries(files, read_dir(files, dir))

scan_workspace(files, dir) ==
    IF ~dir_exists(files, dir) THEN {[ok |-> TRUE, found |-> {}]}
    ELSE scan_entries(files, read_dir(files, dir))

ScanOf == [p \in FileSystems \X Roots |-> scan_workspace(p[1], p[2])] @@ EmptyMap

(***************************************************************************)
(* DependencyGraphBuilder.  graph.nodes and graph.edges are HashMaps: a    *)
(* function from the key to the value.  A HashMap iterates in an order of  *)
(* its own, so a loop over one is modelled with every order it may take.   *)
(***************************************************************************)
DependencyGraphBuilder_new(workspace_root) ==
    [graph |-> [nodes |-> EmptyMap, edges |-> EmptyMap],
     workspace_root |-> workspace_root]

\* HashMap::insert of each (key, value) pair of more, over map.
insert_all(map, more) ==
    [k \in (DOMAIN map) \cup (DOMAIN more) |-> IF k \in DOMAIN more THEN more[k] ELSE map[k]]

\* The orders in which a loop may meet the members of S.
Orders(S) ==
    {o \in [1..Cardinality(S) -> S] : \A i, j \in 1..Cardinality(S) : o[i] = o[j] => i = j}

RECURSIVE seq_of(_)
seq_of(S) ==
    IF S = {} THEN << >>
    ELSE LET x == CHOOSE y \in S : TRUE IN <<x>> \o seq_of(S \ {x})

elements(sq) == {sq[i] : i \in 1..Len(sq)}

\* The test resolve_import_to_file applies to one node key.
import_matches(file_path, import_path) ==
    \/ ends_with(file_path, import_path)
    \/ file_path = import_path
    \/ replace_with_empty(file_path, <<".", "t", "s">>) = replace_with_empty(import_path, <<".", "t", "s">>)

AllKeys == {get_relative_path(WorkspaceRoot, f) : f \in Files}
AllImports == UNION {elements(ImportsOf[t]) : t \in AllTexts}
\* The keys and module names of the node sets edge-builds are run on by themselves.
EdgeKeys == {<<".", "c", ".", "t", "s">>, <<"l", "i", "b", "/", ".", "c", ".", "t", "s">>, <<".", "c", ".", "t", "s", "x">>}

EdgeModules == {<<".", "c">>, <<".", "c", "x">>}

EdgeImports == {resolve_import_path(module_name) : module_name \in EdgeModules}

MatchOf ==
    [p \in (AllKeys \cup EdgeKeys) \X (AllImports \cup EdgeImports) |->
        import_matches(p[1], p[2])] @@ EmptyMap

\* resolve_import_to_file, with keys the order in which nodes.keys() iterates.
\* The first key of keys, in their order, at one of the positions hits.
first_hit(keys, hits) == IF hits = {} THEN None ELSE Some(keys[MinOf(hits)])

matches(file_path, import_path) ==
    Lookup(MatchOf, <<file_path, import_path>>, import_matches(file_path, import_path))

resolve_import_to_file(keys, import_path) ==
    first_hit(keys, {i \in 1..Len(keys) : matches(keys[i], import_path)})

RECURSIVE resolve_all(_, _)
resolve_all(keys, imports) ==
    IF imports = << >> THEN << >>
    ELSE resolve_import_to_file(keys, Head(imports)) \o resolve_all(keys, Tail(imports))

\* build_edges pushing onto the dependency list the file had, instead of
\* inserting a new one.
build_edges_extending(graph, keys) ==
    [graph EXCEPT !.edges =
        [k \in DOMAIN graph.nodes |->
            (IF k \in DOMAIN graph.edges THEN graph.edges[k] ELSE << >>)
                \o resolve_all(keys, graph.nodes[k].imports)]]

\* build_edges: one dependency list per node, inserted over the edges there were.
build_edges(graph, keys) ==
    [graph EXCEPT !.edges =
        insert_all(graph.edges,
                   [k \in DOMAIN graph.nodes |-> resolve_all(keys, graph.nodes[k].imports)])]

\* The nodes analyze_file has inserted when the scan registered the files found.
\* graph.nodes.insert(relative_path, node) for each node of nodes.
keyed(nodes) ==
    [k \in {n.file_path : n \in nodes} |-> CHOOSE n \in nodes : n.file_path = k]

scanned_nodes(files, workspace_root, found) ==
    keyed({analyze_file(workspace_root, f, files[f]) : f \in found})

\* build_graph: the outcomes [ok, builder] it may have on this file system.
\* build_graph after scan_workspace: nodes is graph.nodes as the scan left it.
after_scan(b, scan, nodes) ==
    IF ~scan.ok
    THEN {[ok |-> FALSE, builder |-> [b EXCEPT !.graph.nodes = nodes]]}
    ELSE {[ok |-> TRUE,
           builder |-> [b EXCEPT !.graph = build_edges([b.graph EXCEPT !.nodes = nodes], keys)]] :
            keys \in Orders(DOMAIN nodes)}

scans(files, workspace_root) ==
    Lookup(ScanOf, <<files, workspace_root>>, scan_workspace(files, workspace_root))

build_graph(b, files) ==
    UNION {after_scan(b, scan,
                      insert_all(b.graph.nodes,
                                 scanned_nodes(files, b.workspace_root, scan.found))) :
             scan \in scans(files, b.workspace_root)}

\* build_graph on a builder just made, for every file system of the model.
BuildOf ==
    [p \in {DependencyGraphBuilder_new(r) : r \in Roots} \X FileSystems |->
        build_graph(p[1], p[2])] @@ EmptyMap

build_graph_outcomes(b, files) == Lookup(BuildOf, <<b, files>>, build_graph(b, files))

\* find_dependents: the keys of edges whose dependency list contains file.
find_dependents(graph, file) ==
    LET dependents == {k \in DOMAIN graph.edges : file \in elements(graph.edges[k])}
    IN  IF dependents = {} THEN None ELSE Some(seq_of(dependents))

\* The last total of the Low arm and of the Medium arm of calculate_risk_level.
LowRiskMax == 2
MediumRiskMax == 7

\* calculate_risk_level with the exclusive ranges 0..2 and 3..7.
calculate_risk_level_exclusive(changed_count, impacted_count) ==
    LET total_impact == changed_count + impacted_count
    IN  IF total_impact < LowRiskMax THEN "Low"
        ELSE IF total_impact < MediumRiskMax THEN "Medium"
        ELSE "High"

calculate_risk_level(changed_count, impacted_count) ==
    LET total_impact == changed_count + impacted_count
    IN  IF total_impact <= LowRiskMax THEN "Low"
        ELSE IF total_impact <= MediumRiskMax THEN "Medium"
        ELSE "High"

\* The while loop of analyze_impact: the queue, the impacted set and the number
\* of pop_front calls that returned a file.
RECURSIVE breadth_first(_, _, _, _)
breadth_first(graph, queue, impacted, pops) ==
    IF queue = << >> THEN [impacted |-> impacted, pops |-> pops]
    ELSE LET current_file == Head(queue)
             found        == find_dependents(graph, current_file)
             dependents   == IF found = None THEN << >> ELSE found[1]
             fresh        == SelectSeq(dependents, LAMBDA d : d \notin impacted)
         IN  breadth_first(graph, Tail(queue) \o fresh,
                           impacted \cup elements(fresh), pops + 1)

\* The impacted set and the queue after the first loop of analyze_impact, then
\* the search.
\* analyze_impact queueing the first changed file only.
reached_from_first(graph, changed_files) ==
    breadth_first(graph, IF changed_files = << >> THEN << >> ELSE <<Head(changed_files)>>,
                  elements(changed_files), 0)

reached(graph, changed_files) ==
    breadth_first(graph, changed_files, elements(changed_files), 0)

\* impacted.iter().filter(..): the reached files that are not in changed_files.
\* analyze_impact without its filter on the changed files.
impacted_set_with_changed(graph, changed_files) ==
    reached(graph, changed_files).impacted

impacted_set(graph, changed_files) ==
    {f \in reached(graph, changed_files).impacted : f \notin elements(changed_files)}

\* analyze_impact returning the changed files without their duplicates.
analyze_impact_deduplicating(graph, changed_files, impacted_files) ==
    [kind           |-> "ImpactAnalysis",
     changed_files  |-> seq_of(elements(changed_files)),
     impacted_files |-> impacted_files,
     risk_level     |-> calculate_risk_level(Len(changed_files), Len(impacted_files))]

\* analyze_impact, with impacted_files one order of the HashSet's iteration.
analyze_impact(graph, changed_files, impacted_files) ==
    [kind           |-> "ImpactAnalysis",
     changed_files  |-> changed_files,
     impacted_files |-> impacted_files,
     risk_level     |-> calculate_risk_level(Len(changed_files), Len(impacted_files))]

(***************************************************************************)
(* ast_diff/languages/ts/mod.rs: the line-oriented scanner.                *)
(***************************************************************************)
last_of(sq) == IF sq = << >> THEN None ELSE Some(sq[Len(sq)])

\* extract_function_name keeping the parameter list on the name.
function_name_untruncated(line, parts) ==
    IF starts_with(line, <<"f", "u", "n", "c", "t", "i", "o", "n", " ">>) /\ Len(parts) >= 2 THEN Some(parts[2])
    ELSE IF starts_with(line, <<"e", "x", "p", "o", "r", "t", " ", "f", "u", "n", "c", "t", "i", "o", "n", " ">>) /\ Len(parts) >= 3 THEN Some(parts[3])
    ELSE IF contains(line, <<" ", "=", " ">>) /\ contains(line, <<" ", "=", ">", " ">>)
    THEN last_of(split_whitespace(trim(split_first_part(line, <<" ", "=", " ">>))))
    ELSE None

extract_function_name_untruncated(line) == function_name_untruncated(line, split_whitespace(line))

\* extract_function_name for a line whose whitespace-separated parts are parts.
function_name(line, parts) ==
    IF starts_with(line, <<"f", "u", "n", "c", "t", "i", "o", "n", " ">>) /\ Len(parts) >= 2
    THEN Some(split_next(parts[2], "("))
    ELSE IF starts_with(line, <<"e", "x", "p", "o", "r", "t", " ", "f", "u", "n", "c", "t", "i", "o", "n", " ">>) /\ Len(parts) >= 3
    THEN Some(split_next(parts[3], "("))
    ELSE IF contains(line, <<" ", "=", " ">>) /\ contains(line, <<" ", "=", ">", " ">>)
    THEN last_of(split_whitespace(trim(split_first_part(line, <<" ", "=", " ">>))))
    ELSE None

extract_function_name(line) == function_name(line, split_whitespace(line))

extract_class_name(line) ==
    IF starts_with(line, <<"c", "l", "a", "s", "s", " ">>) \/ starts_with(line, <<"e", "x", "p", "o", "r", "t", " ", "c", "l", "a", "s", "s", " ">>)
    THEN class_name_in(split_whitespace(line))
    ELSE None

extract_import_name(line) ==
    IF starts_with(line, <<"i", "m", "p", "o", "r", "t", " ">>)
    THEN LET from == find(line, <<" ", "f", "r", "o", "m", " ">>)
         IN  IF from = 0 THEN None
             ELSE Some(trim_matches(trim_matches(trim(from_pos(line, from + 6)), "'"), "\""))
    ELSE None

\* declaration giving the leaf a range that ends one line further down.
declaration_spanning(node_type, found, current_line) ==
    IF found = None THEN << >>
    ELSE <<[node_type  |-> node_type,
            name       |-> found,
            start_line |-> current_line,
            end_line   |-> current_line + 1,
            children   |-> << >>]>>

\* The leaf node parse_simple pushes for a name found on line current_line.
declaration(node_type, found, current_line) ==
    IF found = None THEN << >>
    ELSE <<[node_type  |-> node_type,
            name       |-> found,
            start_line |-> current_line,
            end_line   |-> current_line,
            children   |-> << >>]>>

\* The children one line contributes: function, then class, then import.
line_children(line, current_line) ==
    LET trimmed == trim(line)
    IN  declaration("FunctionDeclaration", extract_function_name(trimmed), current_line)
        \o declaration("ClassDeclaration", extract_class_name(trimmed), current_line)
        \o declaration("ImportDeclaration", extract_import_name(trimmed), current_line)

RECURSIVE children_from(_, _)
children_from(ls, current_line) ==
    IF ls = << >> THEN << >>
    ELSE line_children(Head(ls), current_line) \o children_from(Tail(ls), current_line + 1)

parse_simple(content) ==
    [node_type  |-> "Program",
     name       |-> None,
     start_line |-> 1,
     end_line   |-> Len(lines(content)),
     children   |-> children_from(lines(content), 1)]

\* supported_extensions without "jsx".
supported_extensions_without_jsx == <<<<"t", "s">>, <<"j", "s">>, <<"t", "s", "x">>>>

\* TypeScriptParser::supported_extensions
supported_extensions == <<<<"t", "s">>, <<"j", "s">>, <<"t", "s", "x">>, <<"j", "s", "x">>>>

(***************************************************************************)
(* ast_diff/lib.rs: the name-keyed diff.                                   *)
(***************************************************************************)
\* AstDiffEngine::new: the extensions that have a parser in the parsers map.
AstDiffEngine_new == [parsers |-> elements(supported_extensions)]

\* children.iter().filter_map(..).collect::<HashMap>(): the named children by
\* name; of two children with one name the later one stays.
children_by_name(node) ==
    LET named == {i \in 1..Len(node.children) : node.children[i].name # None}
        names == {node.children[i].name[1] : i \in named}
    IN  [n \in names |->
            node.children[MaxOf({i \in named : node.children[i].name[1] = n})]]

\* nodes_differ with == for != on the node types.
nodes_differ_inverted(old_node, new_node) ==
    \/ old_node.node_type = new_node.node_type
    \/ Len(old_node.children) # Len(new_node.children)

nodes_differ(old_node, new_node) ==
    \/ old_node.node_type # new_node.node_type
    \/ Len(old_node.children) # Len(new_node.children)

\* format!("{} {}", node_type, name)
content_of(node_type, name) == <<node_type, " ">> \o name

\* The Removed change without the old node's lines.
removed_change_without_lines(name, old_child) ==
    [change_type |-> "Removed",
     node_type   |-> old_child.node_type,
     name        |-> Some(name),
     line_range  |-> <<0, 0>>,
     old_content |-> Some(content_of(old_child.node_type, name)),
     new_content |-> None]

removed_change(name, old_child) ==
    [change_type |-> "Removed",
     node_type   |-> old_child.node_type,
     name        |-> Some(name),
     line_range  |-> <<old_child.start_line, old_child.end_line>>,
     old_content |-> Some(content_of(old_child.node_type, name)),
     new_content |-> None]

added_change(name, new_child) ==
    [change_type |-> "Added",
     node_type   |-> new_child.node_type,
     name        |-> Some(name),
     line_range  |-> <<new_child.start_line, new_child.end_line>>,
     old_content |-> None,
     new_content |-> Some(content_of(new_child.node_type, name))]

\* The change for a name found in both trees reported as an addition.
modified_change_as_added(name, old_child, new_child) ==
    [change_type |-> "Added",
     node_type   |-> new_child.node_type,
     name        |-> Some(name),
     line_range  |-> <<new_child.start_line, new_child.end_line>>,
     old_content |-> None,
     new_content |-> Some(content_of(new_child.node_type, name))]

modified_change(name, old_child, new_child) ==
    [change_type |-> "Modified",
     node_type   |-> new_child.node_type,
     name        |-> Some(name),
     line_range  |-> <<new_child.start_line, new_child.end_line>>,
     old_content |-> Some(content_of(old_child.node_type, name)),
     new_content |-> Some(content_of(new_child.node_type, name))]

\* Every concatenation of one sequence of each set of blocks, in the blocks' order.
RECURSIVE concat_all(_)
concat_all(blocks) ==
    IF blocks = << >> THEN {<< >>}
    ELSE {h \o t : h \in Head(blocks), t \in concat_all(Tail(blocks))}

\* diff_nodes: the change lists it may return.  Both loops run over a HashMap,
\* each in an order of its own.
RECURSIVE diff_nodes(_, _)
diff_nodes(old_node, new_node) ==
    LET old_children == children_by_name(old_node)
        new_children == children_by_name(new_node)
        removed      == (DOMAIN old_children) \ (DOMAIN new_children)
        found(name)  ==
            IF name \notin DOMAIN old_children
            THEN {<<added_change(name, new_children[name])>>}
            ELSE LET old_child == old_children[name]
                     new_child == new_children[name]
                     modified  == IF nodes_differ(old_child, new_child)
                                  THEN <<modified_change(name, old_child, new_child)>>
                                  ELSE << >>
                 IN  {modified \o deeper : deeper \in diff_nodes(old_child, new_child)}
    IN  {[i \in 1..Len(first) |-> removed_change(first[i], old_children[first[i]])] \o rest :
            first \in Orders(removed),
            rest \in UNION {concat_all([i \in 1..Len(second) |-> found(second[i])]) :
                               second \in Orders(DOMAIN new_children)}}

(***************************************************************************)
(* The changed-file lists a caller passes.  Short lists range over the     *)
(* workspace's keys and one file the graph never holds; long lists add the *)
(* files "file0.ts", "file1.ts", ... of test_impact_analysis_risk_levels.  *)
(***************************************************************************)
MaxChanged == 2
MaxUnknown == 7

Key_a == <<"a", ".", "t", "s">>
Key_b == <<"b", ".", "t", "s">>
Key_c == <<".", "c", ".", "t", "s">>
Key_d == <<"l", "i", "b", "/", ".", "d", ".", "t", "s">>

Digits == <<"0", "1", "2", "3", "4", "5", "6", "7", "8", "9">>

\* format!("file{}.ts", i)
unknown_file(i) == <<"f", "i", "l", "e">> \o <<Digits[i + 1]>> \o <<".", "t", "s">>

many_files(n) == [i \in 1..n |-> unknown_file(i - 1)]

ChangedNames == {Key_a, Key_c, Key_d, unknown_file(0)}

ListsUpTo(n) == UNION {[1..k -> ChangedNames] : k \in 0..n}

ChangedLists ==
    ListsUpTo(MaxChanged)
        \cup {p \o many_files(n) : p \in ListsUpTo(1), n \in 1..MaxUnknown}

Ok == [kind |-> "Ok"]
Err(e) == [kind |-> "Err", error |-> e]
Nothing == [kind |-> "Nothing"]

(***************************************************************************)
(* The builder used directly, as the tests of the repository do.           *)
(***************************************************************************)
InitImpact ==
    /\ fs \in FileSystems
    /\ query \in ChangedLists
    /\ builder = DependencyGraphBuilder_new(WorkspaceRoot)
    /\ returned = Nothing
    /\ engine = [dep_graph |-> None, built |-> FALSE]
    /\ edits = 0
    /\ reply = Nothing
    /\ request = Nothing
    /\ response = Nothing

\* builder.build_graph()
BuildGraph ==
    /\ \E outcome \in build_graph_outcomes(builder, fs) :
          /\ builder' = outcome.builder
          /\ returned' = IF outcome.ok THEN Ok ELSE Err("Io")
    /\ UNCHANGED <<fs, query, engine, edits, reply, request, response>>

\* builder.analyze_impact(&query)
AnalyzeImpact ==
    /\ \E impacted_files \in Orders(impacted_set(builder.graph, query)) :
          returned' = analyze_impact(builder.graph, query, impacted_files)
    /\ UNCHANGED <<fs, builder, query, engine, edits, reply, request, response>>

NextImpact == BuildGraph \/ AnalyzeImpact

SpecImpact == InitImpact /\ [][NextImpact]_vars

(***************************************************************************)
(* engine.rs: the Engine holds at most one built DependencyGraphBuilder.   *)
(* The field built is history: some build_dependency_graph has succeeded.  *)
(***************************************************************************)
MaxEdits == 1

Engine_new == [dep_graph |-> None, built |-> FALSE]

InitEngine ==
    /\ fs \in FileSystems
    /\ query \in ListsUpTo(1)
    /\ builder = DependencyGraphBuilder_new(WorkspaceRoot)
    /\ returned = Nothing
    /\ engine = Engine_new
    /\ edits = 0
    /\ reply = Nothing
    /\ request = Nothing
    /\ response = Nothing

\* build_dependency_graph storing the builder before build_graph's result is looked at.
build_dependency_graph_storing_first(e, outcome) ==
    [engine |-> [dep_graph |-> Some(outcome.builder), built |-> e.built \/ outcome.ok],
     reply  |-> IF outcome.ok THEN Ok ELSE Err("Io")]

\* build_dependency_graph dropping the graph it holds when the build fails.
build_dependency_graph_clearing(e, outcome) ==
    IF outcome.ok
    THEN [engine |-> [dep_graph |-> Some(outcome.builder), built |-> TRUE], reply |-> Ok]
    ELSE [engine |-> [e EXCEPT !.dep_graph = None], reply |-> Err("Io")]

\* What build_dependency_graph(workspace_root) makes of the engine and returns,
\* for one outcome of the build_graph call it makes on a new builder.
build_dependency_graph(e, outcome) ==
    IF outcome.ok
    THEN [engine |-> [dep_graph |-> Some(outcome.builder), built |-> TRUE], reply |-> Ok]
    ELSE [engine |-> e, reply |-> Err("Io")]

\* engine.build_dependency_graph(workspace_root)
BuildDependencyGraph ==
    /\ \E workspace_root \in Roots :
       \E outcome \in build_graph_outcomes(DependencyGraphBuilder_new(workspace_root), fs) :
          LET after == build_dependency_graph(engine, outcome)
          IN  engine' = after.engine /\ reply' = after.reply
    /\ UNCHANGED <<fs, builder, query, returned, edits, request, response>>

\* analyze_impact taking the graph out of the Engine (Option::take) for the query.
EngineAnalyzeImpactTaking ==
    /\ IF engine.dep_graph # None
       THEN LET dep_graph == engine.dep_graph[1]
            IN  \E impacted_files \in Orders(impacted_set(dep_graph.graph, query)) :
                   reply' = analyze_impact(dep_graph.graph, query, impacted_files)
       ELSE reply' = Err("GraphNotBuilt")
    /\ engine' = [engine EXCEPT !.dep_graph = None]
    /\ UNCHANGED <<fs, builder, query, returned, edits, request, response>>

\* engine.analyze_impact(&query)
EngineAnalyzeImpact ==
    /\ IF engine.dep_graph # None
       THEN LET dep_graph == engine.dep_graph[1]
            IN  \E impacted_files \in Orders(impacted_set(dep_graph.graph, query)) :
                   reply' = analyze_impact(dep_graph.graph, query, impacted_files)
       ELSE reply' = Err("GraphNotBuilt")
    /\ UNCHANGED <<fs, builder, query, returned, engine, edits, request, response>>

\* The user writes, deletes or locks one file of the workspace.
EditWorkspace ==
    /\ edits < MaxEdits
    /\ \E f \in Files : \E state \in StatesOf(f) \ {fs[f]} :
          fs' = [fs EXCEPT ![f] = state]
    /\ edits' = edits + 1
    /\ UNCHANGED <<builder, query, returned, engine, reply, request, response>>

NextEngine == BuildDependencyGraph \/ EngineAnalyzeImpact \/ EditWorkspace

SpecEngine == InitEngine /\ [][NextEngine]_vars

(***************************************************************************)
(* One builder kept while the workspace changes: build_graph is called on  *)
(* it again after files were written, deleted or locked.                   *)
(***************************************************************************)
InitRebuild ==
    /\ fs \in FileSystems
    /\ query = << >>
    /\ builder = DependencyGraphBuilder_new(WorkspaceRoot)
    /\ returned = Nothing
    /\ engine = Engine_new
    /\ edits = 0
    /\ reply = Nothing
    /\ request = Nothing
    /\ response = Nothing

NextRebuild == BuildGraph \/ EditWorkspace

SpecRebuild == InitRebuild /\ [][NextRebuild]_vars

(***************************************************************************)
(* ast_diff: one diff request.  Texts are made of the lines below: a plain, *)
(* an exported and an arrow function, a class, an import and a line that   *)
(* declares nothing; the arrow function and the class share their name.    *)
(***************************************************************************)
MaxLines == 2

Line_old == <<"f", "u", "n", "c", "t", "i", "o", "n", " ", "o", "l", "d", "(", ")", "{", "r", "e", "t", "u", "r", "n", " ", "1", ";", "}">>
Line_brandNew == <<"e", "x", "p", "o", "r", "t", " ", "f", "u", "n", "c", "t", "i", "o", "n", " ", "b", "r", "a", "n", "d", "N", "e", "w", "(", ")", "{", "r", "e", "t", "u", "r", "n", " ", "2", ";", "}">>
Line_class == <<"c", "l", "a", "s", "s", " ", "C", " ", "{", "}">>
Line_arrow == <<"c", "o", "n", "s", "t", " ", "C", " ", "=", " ", "(", ")", " ", "=", ">", " ", "1">>
Line_import == <<"i", "m", "p", "o", "r", "t", " ", "{", " ", "f", "o", "o", " ", "}", " ", "f", "r", "o", "m", " ", "'", ".", "/", "a", "'">>
Line_body == <<" ", " ", "r", "e", "t", "u", "r", "n", " ", "1", ";">>

DiffLines ==
    {Line_old, Line_brandNew, Line_class, Line_arrow, Line_import, Line_body}

LineListsUpTo(n) == UNION {[1..k -> DiffLines] : k \in 0..n}

TextsUpTo(n) == {join_lines(ls) : ls \in LineListsUpTo(n)}

DiffPaths ==
    {<<"t", "e", "s", "t", ".", "t", "s">>, <<"a", ".", "j", "s">>, <<"s", "r", "c", "/", "b", ".", "t", "s", "x">>, <<"c", ".", "j", "s", "x">>, <<"M", "a", "k", "e", "f", "i", "l", "e">>, <<"d", "i", "r", ".", "t", "s", "/", "M", "a", "k", "e", "f", "i", "l", "e">>,
     <<".", "g", "i", "t", "i", "g", "n", "o", "r", "e">>, <<"n", "o", "t", "e", "s", ".", "m", "d">>, <<"l", "i", "b", ".", "r", "s">>, <<"a", ".", "T", "S">>}

DiffRequest(file_path, old_content, new_content) ==
    [kind        |-> "Request",
     file_path   |-> file_path,
     old_content |-> old_content,
     new_content |-> new_content]

DiffRequests ==
    {DiffRequest(<<"t", "e", "s", "t", ".", "t", "s">>, o, n) : o, n \in TextsUpTo(MaxLines)}
        \cup {DiffRequest(p, o, n) : p \in DiffPaths, o, n \in TextsUpTo(1)}

ParseOf == [t \in TextsUpTo(MaxLines) |-> parse_simple(t)] @@ EmptyMap

\* parser.parse(content): TypeScriptParser::parse never fails.
parse(content) == Lookup(ParseOf, content, parse_simple(content))

NoParser(ext) == [kind |-> "Err", error |-> "NoParser", extension |-> ext]

\* compute_diff: the results it may return.
compute_diff(e, file_path, old_content, new_content) ==
    LET found == extension(file_path)
        ext   == IF found = NoValue THEN << >> ELSE found
    IN  IF ext \notin e.parsers THEN {NoParser(ext)}
        ELSE {[kind |-> "AstDiff", file_path |-> file_path, changes |-> changes] :
                changes \in diff_nodes(parse(old_content), parse(new_content))}

InitDiff ==
    /\ request \in DiffRequests
    /\ response = Nothing
    /\ fs = [f \in Files |-> Absent]
    /\ query = << >>
    /\ builder = DependencyGraphBuilder_new(WorkspaceRoot)
    /\ returned = Nothing
    /\ engine = Engine_new
    /\ edits = 0
    /\ reply = Nothing

\* AstDiffEngine::new().compute_diff(file_path, old_content, new_content)
ComputeDiff ==
    /\ response' \in compute_diff(AstDiffEngine_new, request.file_path,
                                  request.old_content, request.new_content)
    /\ UNCHANGED <<fs, builder, query, returned, engine, edits, reply, request>>

NextDiff == ComputeDiff

SpecDiff == InitDiff /\ [][NextDiff]_vars

(***************************************************************************)
(* The scanner alone: one text of up to MaxScanLines lines is parsed.  The *)
(* lines are those of the diff requests and a class whose body, on the     *)
(* same line, assigns an arrow function to a member.                       *)
(***************************************************************************)
MaxScanLines == 3

Line_member == <<"c", "l", "a", "s", "s", " ", "C", " ", "{", " ", "x", " ", "=", " ", "(", ")", " ", "=", ">", " ", "1", " ", "}">>

ScanLines == DiffLines \cup {Line_member}

ScanTexts == {join_lines(ls) : ls \in UNION {[1..k -> ScanLines] : k \in 0..MaxScanLines}}

InitScan ==
    /\ request \in {[kind |-> "Parse", content |-> content] : content \in ScanTexts}
    /\ response = Nothing
    /\ fs = [f \in Files |-> Absent]
    /\ query = << >>
    /\ builder = DependencyGraphBuilder_new(WorkspaceRoot)
    /\ returned = Nothing
    /\ engine = Engine_new
    /\ edits = 0
    /\ reply = Nothing

\* TypeScriptParser::new().parse(content)
Parse ==
    /\ response' = [kind |-> "AstNode", root |-> parse_simple(request.content)]
    /\ UNCHANGED <<fs, builder, query, returned, engine, edits, reply, request>>

NextScan == Parse

SpecScan == InitScan /\ [][NextScan]_vars

(***************************************************************************)
(* analyze_impact one iteration at a time.  While the call runs, returned  *)
(* holds its locals: the queue, the impacted set and the number of         *)
(* pop_front calls that returned a file.                                   *)
(***************************************************************************)
\* The first loop of analyze_impact pushing each changed file twice.
search_start_twice(changed_files) ==
    [kind     |-> "Searching",
     queue    |-> changed_files \o changed_files,
     impacted |-> elements(changed_files),
     pops     |-> 0]

\* The first loop of analyze_impact: every entry of changed_files is pushed
\* onto the queue and inserted into impacted.
search_start(changed_files) ==
    [kind     |-> "Searching",
     queue    |-> changed_files,
     impacted |-> elements(changed_files),
     pops     |-> 0]

\* The dependents find_dependents returned that impacted does not hold yet.
fresh_dependents(found, impacted) ==
    IF found = None THEN << >>
    ELSE SelectSeq(found[1], LAMBDA dependent : dependent \notin impacted)

\* The locals after the dependents fresh were inserted and pushed.
after_pop(locals, fresh) ==
    [locals EXCEPT !.queue    = Tail(locals.queue) \o fresh,
                   !.impacted = locals.impacted \cup elements(fresh),
                   !.pops     = locals.pops + 1]

\* One iteration of the while loop: pop_front, find_dependents, push.
search_step(graph, locals) ==
    after_pop(locals,
              fresh_dependents(find_dependents(graph, Head(locals.queue)), locals.impacted))

InitSearch ==
    /\ fs \in FileSystems
    /\ builder \in {outcome.builder :
                      outcome \in build_graph_outcomes(DependencyGraphBuilder_new(WorkspaceRoot), fs)}
    /\ query \in ListsUpTo(MaxChanged)
    /\ returned = Nothing
    /\ engine = Engine_new
    /\ edits = 0
    /\ reply = Nothing
    /\ request = Nothing
    /\ response = Nothing

\* builder.analyze_impact(&query) is called.
SearchStart ==
    /\ returned = Nothing
    /\ returned' = search_start(query)
    /\ UNCHANGED <<fs, builder, query, engine, edits, reply, request, response>>

\* while let Some(current_file) = queue.pop_front()
SearchStep ==
    /\ returned.kind = "Searching"
    /\ returned.queue # << >>
    /\ returned' = search_step(builder.graph, returned)
    /\ UNCHANGED <<fs, builder, query, engine, edits, reply, request, response>>

\* The queue is empty: the result is assembled and returned.
SearchReturn ==
    /\ returned.kind = "Searching"
    /\ returned.queue = << >>
    /\ \E impacted_files \in Orders({f \in returned.impacted : f \notin elements(query)}) :
          returned' = analyze_impact(builder.graph, query, impacted_files)
    /\ UNCHANGED <<fs, builder, query, engine, edits, reply, request, response>>

NextSearch == SearchStart \/ SearchStep \/ SearchReturn

\* A call that has started runs on: each iteration and the return follow.
SpecSearch == InitSearch /\ [][NextSearch]_vars /\ WF_vars(NextSearch)

(***************************************************************************)
(* build_edges on its own: a builder whose scan has registered a node set, *)
(* before and after edge-builds.  The keys are relative paths of files a   *)
(* scan registers, the imports what extract_imports makes of the module    *)
(* names below.  Each step is one edge-build from the node set; the order  *)
(* in which nodes.keys() iterates is that of the HashMap at hand, and two  *)
(* HashMaps with the same keys need not iterate alike.                     *)
(***************************************************************************)
MaxImports == 2

ImportLists == UNION {[1..n -> EdgeImports] : n \in 0..MaxImports}

GraphNode(file_path, imports) ==
    [file_path |-> file_path, imports |-> imports, exports |-> << >>]

NodeSets ==
    UNION {{[k \in K |-> GraphNode(k, imports[k])] : imports \in [K -> ImportLists]} :
             K \in SUBSET EdgeKeys}

InitEdges ==
    /\ builder \in {[DependencyGraphBuilder_new(WorkspaceRoot) EXCEPT !.graph.nodes = nodes] :
                      nodes \in NodeSets}
    /\ returned = Nothing
    /\ fs = [f \in Files |-> Absent]
    /\ query = << >>
    /\ engine = Engine_new
    /\ edits = 0
    /\ reply = Nothing
    /\ request = Nothing
    /\ response = Nothing

\* self.build_edges()
BuildEdges ==
    /\ \E keys \in Orders(DOMAIN builder.graph.nodes) :
          builder' = [builder EXCEPT !.graph = build_edges(builder.graph, keys)]
    /\ returned' = Ok
    /\ UNCHANGED <<fs, query, engine, edits, reply, request, response>>

NextEdges == BuildEdges

SpecEdges == InitEdges /\ [][NextEdges]_vars

(***************************************************************************)
(* engine.rs: compute_ast_diffs, one request carrying the changes of       *)
(* several files, each a (file_path, old_content, new_content).            *)
(***************************************************************************)
MaxBatch == 2

BatchContents == {<<<< >>, Line_old>>, <<Line_class, Line_arrow>>}

FileChanges == {<<p, c[1], c[2]>> : p \in DiffPaths, c \in BatchContents}

BatchRequests ==
    {[kind |-> "Batch", file_changes |-> file_changes] :
        file_changes \in UNION {[1..n -> FileChanges] : n \in 0..MaxBatch}}

\* The loop of compute_ast_diffs over the file changes left, diffs being the
\* vector pushed so far: the ? returns the first error.
RECURSIVE diffs_from(_, _, _)
diffs_from(ast_engine, file_changes, diffs) ==
    IF file_changes = << >> THEN {[kind |-> "AstDiffs", diffs |-> diffs]}
    ELSE UNION {IF diff.kind = "Err" THEN {diff}
                ELSE diffs_from(ast_engine, Tail(file_changes), Append(diffs, diff)) :
                  diff \in compute_diff(ast_engine, Head(file_changes)[1],
                                        Head(file_changes)[2], Head(file_changes)[3])}

\* compute_ast_diffs: the results it may return.
compute_ast_diffs(ast_engine, file_changes) == diffs_from(ast_engine, file_changes, << >>)

InitBatch ==
    /\ request \in BatchRequests
    /\ response = Nothing
    /\ fs = [f \in Files |-> Absent]
    /\ query = << >>
    /\ builder = DependencyGraphBuilder_new(WorkspaceRoot)
    /\ returned = Nothing
    /\ engine = Engine_new
    /\ edits = 0
    /\ reply = Nothing

\* Engine::new().compute_ast_diffs(&file_changes)
ComputeAstDiffs ==
    /\ response' \in compute_ast_diffs(AstDiffEngine_new, request.file_changes)
    /\ UNCHANGED <<fs, builder, query, returned, engine, edits, reply, request>>

NextBatch == ComputeAstDiffs

SpecBatch == InitBatch /\ [][NextBatch]_vars

(***************************************************************************)
(* Properties of the diff.                                                 *)
(***************************************************************************)
LinesOf == [t \in TextsUpTo(MaxLines) |-> lines(t)] @@ EmptyMap

old_lines == Lookup(LinesOf, request.old_content, lines(request.old_content))
new_lines == Lookup(LinesOf, request.new_content, lines(request.new_content))

\* What each line declares, read off the line by hand: <<line, kind, name>>.
Declared ==
    {<<Line_old, "FunctionDeclaration", <<"o", "l", "d">>>>,
     <<Line_brandNew, "FunctionDeclaration", <<"b", "r", "a", "n", "d", "N", "e", "w">>>>,
     <<Line_arrow, "FunctionDeclaration", <<"C">>>>,
     <<Line_class, "ClassDeclaration", <<"C">>>>,
     <<Line_import, "ImportDeclaration", <<".", "/", "a">>>>}

\* The list ls without its i-th line.
Without(ls, i) == SubSeq(ls, 1, i - 1) \o SubSeq(ls, i + 1, Len(ls))

\* Some line of ls declares something named name.
Declares(ls, name) ==
    \E j \in 1..Len(ls) : \E d \in Declared : d[1] = ls[j] /\ d[3] = name

Answered == response.kind = "AstDiff"

\* C3: diffing a text against itself gives an empty change list, whatever the
\* registered extension, also when declarations of the text share a name.
C3_SelfDiffEmpty ==
    (Answered /\ request.old_content = request.new_content)
        => response.changes = << >>

C3_Witness ==
    /\ Answered
    /\ request.old_content = request.new_content
    /\ new_lines = <<Line_class, Line_arrow>>
    /\ response.changes = << >>

\* The new text is the old text with the declaration d added as line i.
AddedLine(d, i) == i \in 1..Len(new_lines) /\ new_lines[i] = d[1] /\ Without(new_lines, i) = old_lines

\* The old text with the declaration d, its line i, taken out is the new text.
RemovedLine(d, i) == i \in 1..Len(old_lines) /\ old_lines[i] = d[1] /\ Without(old_lines, i) = new_lines

OneChange(change_type, d) ==
    /\ Len(response.changes) = 1
    /\ response.changes[1].change_type = change_type
    /\ response.changes[1].node_type = d[2]
    /\ response.changes[1].name = Some(d[3])

Functions == {d \in Declared : d[2] = "FunctionDeclaration"}
Classes == {d \in Declared : d[2] = "ClassDeclaration"}

\* C4 as stated: adding one function named f to otherwise unchanged text gives
\* exactly one change, Added FunctionDeclaration f.
C4_AddedFunctionAlways ==
    Answered =>
        \A d \in Functions : \A i \in 1..(MaxLines + 1) :
            AddedLine(d, i) => OneChange("Added", d)

\* C4: adding one function named f to otherwise unchanged text in which no
\* declaration is named f gives exactly one change, Added FunctionDeclaration
\* f on the new line; the declarations of both versions give none.
C4_AddedFunction ==
    Answered =>
        \A d \in Functions : \A i \in 1..(MaxLines + 1) :
            (AddedLine(d, i) /\ ~Declares(old_lines, d[3]))
                => OneChange("Added", d) /\ response.changes[1].line_range = <<i, i>>

C4_Witness ==
    /\ Answered
    /\ old_lines = <<Line_old>>
    /\ new_lines = <<Line_old, Line_brandNew>>
    /\ Len(response.changes) = 1
    /\ response.changes[1].change_type = "Added"
    /\ response.changes[1].name = Some(<<"b", "r", "a", "n", "d", "N", "e", "w">>)

\* C5 as stated: removing one class named C from otherwise unchanged text gives
\* exactly one change, Removed ClassDeclaration C with the old node's lines.
C5_RemovedClassAlways ==
    Answered =>
        \A d \in Classes : \A i \in 1..(MaxLines + 1) :
            RemovedLine(d, i)
                => OneChange("Removed", d) /\ response.changes[1].line_range = <<i, i>>

\* C5: removing one class named C from otherwise unchanged text in which no
\* other declaration is named C gives exactly one change, Removed
\* ClassDeclaration C with the old node's lines.
C5_RemovedClass ==
    Answered =>
        \A d \in Classes : \A i \in 1..(MaxLines + 1) :
            (RemovedLine(d, i) /\ ~Declares(new_lines, d[3]))
                => OneChange("Removed", d) /\ response.changes[1].line_range = <<i, i>>

C5_Witness ==
    /\ Answered
    /\ old_lines = <<Line_old, Line_class>>
    /\ new_lines = <<Line_old>>
    /\ Len(response.changes) = 1
    /\ response.changes[1].change_type = "Removed"
    /\ response.changes[1].name = Some(<<"C">>)
    /\ response.changes[1].line_range = <<2, 2>>

\* The extension of each path, read off the path by hand.
SuffixOf(path) ==
    CASE path = <<"t", "e", "s", "t", ".", "t", "s">> -> <<"t", "s">>
      [] path = <<"a", ".", "j", "s">> -> <<"j", "s">>
      [] path = <<"s", "r", "c", "/", "b", ".", "t", "s", "x">> -> <<"t", "s", "x">>
      [] path = <<"c", ".", "j", "s", "x">> -> <<"j", "s", "x">>
      [] path = <<"n", "o", "t", "e", "s", ".", "m", "d">> -> <<"m", "d">>
      [] path = <<"l", "i", "b", ".", "r", "s">> -> <<"r", "s">>
      [] path = <<"a", ".", "T", "S">> -> <<"T", "S">>
      [] OTHER -> << >>

Registered == {<<"t", "s">>, <<"j", "s">>, <<"t", "s", "x">>, <<"j", "s", "x">>}

\* C8: a diff request fails, naming the extension, exactly when the extension
\* of its path is none of ts, js, tsx, jsx; a path without a suffix counts as
\* extension "" and fails; otherwise the diff carries the request's path.
C8_UnsupportedExtension ==
    response # Nothing =>
        IF SuffixOf(request.file_path) \in Registered
        THEN Answered /\ response.file_path = request.file_path
        ELSE response = NoParser(SuffixOf(request.file_path))

C8_Witness ==
    /\ request.file_path = <<"d", "i", "r", ".", "t", "s", "/", "M", "a", "k", "e", "f", "i", "l", "e">>
    /\ response = NoParser(<< >>)

\* The names the lines declare.
DeclaredNames == {d[3] : d \in Declared}

\* The kind of the last declaration named name among the lines ls.
LastKind(ls, name) ==
    LET at == MaxOf({j \in 1..Len(ls) : \E d \in Declared : d[1] = ls[j] /\ d[3] = name})
    IN  (CHOOSE d \in Declared : d[1] = ls[at])[2]

\* The changes that carry the name.
ChangesNamed(name) == SelectSeq(response.changes, LAMBDA c : c.name = Some(name))

C20_OthersStillDiffed ==
    response # Nothing =>
        \A i \in 1..Len(request.file_changes) :
            SuffixOf(request.file_changes[i][1]) \in Registered =>
                /\ response.kind = "AstDiffs"
                /\ \E j \in 1..Len(response.diffs) :
                      response.diffs[j].file_path = request.file_changes[i][1]

(***************************************************************************)
(* Properties of the impact analysis on a builder.                         *)
(***************************************************************************)
Analysed == returned.kind = "ImpactAnalysis"

\* The files from which a chain of edges leads to a file of S, and S itself.
RECURSIVE DependOn(_, _)
DependOn(edges, S) ==
    LET more == {k \in DOMAIN edges : \E t \in S : \E i \in 1..Len(edges[k]) : edges[k][i] = t}
    IN  IF more \subseteq S THEN S ELSE DependOn(edges, S \cup more)

\* C1: impacted_files holds, once each, exactly the files that depend through
\* a chain of edges on some changed file, without the changed files.
C1_ReverseReachability ==
    Analysed =>
        LET changed  == {returned.changed_files[i] : i \in 1..Len(returned.changed_files)}
            impacted == {returned.impacted_files[i] : i \in 1..Len(returned.impacted_files)}
        IN  /\ impacted = DependOn(builder.graph.edges, changed) \ changed
            /\ Cardinality(impacted) = Len(returned.impacted_files)
            /\ impacted \cap changed = {}

\* .c.ts and lib/.d.ts import one another, a.ts imports lib/.d.ts, and .c.ts changed.
C1_Witness ==
    /\ Analysed
    /\ query = <<Key_c>>
    /\ DOMAIN builder.graph.edges = {Key_a, Key_c, Key_d}
    /\ builder.graph.edges[Key_c] = <<Key_d>>
    /\ builder.graph.edges[Key_d] = <<Key_c>>
    /\ {returned.impacted_files[i] : i \in 1..Len(returned.impacted_files)} = {Key_a, Key_d}

\* The workspace of the scenario: a.ts exports foo, b.ts imports it from './a'.
SiblingWorkspace ==
    /\ fs[File_a] = Text_a1
    /\ fs[File_b] \in {Text_b1, Text_b2}
    /\ fs[File_c] = Absent
    /\ fs[File_d] = Absent

\* C2: with a.ts and b.ts importing './a' in the workspace, build then
\* analyze(["a.ts"]) returns impacted_files = ["b.ts"] and risk Low.
C2_SiblingImportResolved ==
    (SiblingWorkspace /\ DOMAIN builder.graph.edges = {Key_a, Key_b}
        /\ Analysed /\ query = <<Key_a>>)
        => returned.impacted_files = <<Key_b>> /\ returned.risk_level = "Low"

\* C6: the risk level is Low for a total of at most 2, Medium for 3 to 7 and
\* High from 8 on, the total being the length of the changed list as given
\* plus the number of impacted files.
C6_RiskThresholds ==
    Analysed =>
        LET total == Len(returned.changed_files) + Len(returned.impacted_files)
        IN  /\ total <= 2 => returned.risk_level = "Low"
            /\ (3 <= total /\ total <= 7) => returned.risk_level = "Medium"
            /\ total >= 8 => returned.risk_level = "High"

C6_Witness ==
    /\ Analysed
    /\ Len(returned.changed_files) = 7
    /\ Len(returned.impacted_files) = 1
    /\ returned.risk_level = "High"

\* C7: on one graph, for changed lists A and B with every file of A in B, each
\* file impacted by A is impacted by B or is in B.
C7_Monotonic ==
    Analysed =>
        \A B \in ChangedLists :
            LET in_B == {B[i] : i \in 1..Len(B)}
            IN  (\A i \in 1..Len(query) : query[i] \in in_B)
                    => \A i \in 1..Len(returned.impacted_files) :
                          \/ returned.impacted_files[i] \in in_B
                          \/ returned.impacted_files[i] \in impacted_set(builder.graph, B)

C7_Witness ==
    /\ Analysed
    /\ query = <<Key_c>>
    /\ returned.impacted_files # << >>
    /\ \E i \in 1..Len(returned.impacted_files) :
          returned.impacted_files[i] \notin impacted_set(builder.graph, <<Key_c, Key_d>>)

\* The files of the workspace a scan has to register.
Eligible == {File_a, File_b, File_c, File_d}

\* C10: a build succeeds although a file is unreadable, and registers every
\* readable eligible file of the workspace.
C10_UnreadableSkipped ==
    returned \in {Ok, Err("Io")} =>
        /\ returned = Ok
        /\ \A f \in Eligible :
              fs[f] \notin {Absent, Unreadable}
                  => get_relative_path(WorkspaceRoot, f) \in DOMAIN builder.graph.nodes

\* The list without the entries that repeat an earlier one.
RECURSIVE Deduplicated(_)
Deduplicated(list) ==
    IF list = << >> THEN << >>
    ELSE LET front == Deduplicated(SubSeq(list, 1, Len(list) - 1))
         IN  IF list[Len(list)] \in elements(front) THEN front
             ELSE Append(front, list[Len(list)])

\* C16: changed_files is the list given, entry for entry; the impacted files
\* are those of the list without its duplicates, and those of the list
\* without the files that are not nodes of the graph; a file that is not a
\* node has no impacted file of its own.
C16_EchoAndSetSemantics ==
    Analysed =>
        LET impacted == elements(returned.impacted_files)
            nodes    == DOMAIN builder.graph.nodes
        IN  /\ returned.changed_files = query
            /\ impacted = impacted_set(builder.graph, Deduplicated(query))
            /\ impacted = impacted_set(builder.graph,
                                       SelectSeq(query, LAMBDA f : f \in nodes))
            /\ \A f \in elements(query) \ nodes : impacted_set(builder.graph, <<f>>) = {}

\* lib/.d.ts was given twice, next to nothing else, and has a dependent.
C16_Witness ==
    /\ Analysed
    /\ query = <<Key_d, Key_d>>
    /\ returned.changed_files = <<Key_d, Key_d>>
    /\ returned.impacted_files # << >>

\* C12: in every state of the builder's graph, after build_graph calls that
\* returned Ok or Err, edges has an entry for every key of nodes.
C12_EdgesForEveryNode ==
    DOMAIN builder.graph.nodes \subseteq DOMAIN builder.graph.edges

\* The node key names a file that is in the workspace.
InWorkspace(key) ==
    \E f \in Files : fs[f] # Absent /\ get_relative_path(WorkspaceRoot, f) = key

\* The graph holds only files that are in the workspace.
OnlyWorkspaceFiles(graph) ==
    /\ \A key \in DOMAIN graph.nodes : InWorkspace(key)
    /\ \A key \in DOMAIN graph.edges :
          /\ InWorkspace(key)
          /\ \A dependency \in elements(graph.edges[key]) : InWorkspace(dependency)

\* C19: at any time, whatever was built and edited before, a build_graph call
\* on the builder that returns Ok leaves a graph whose node keys, edge keys
\* and dependencies are files that are in the workspace at that time.
C19_RebuildFromScratch ==
    \A outcome \in build_graph_outcomes(builder, fs) :
        outcome.ok => OnlyWorkspaceFiles(outcome.builder.graph)

(***************************************************************************)
(* Properties of the search loop.                                          *)
(***************************************************************************)
Searching == returned.kind = "Searching"

NodeCount == Cardinality(DOMAIN builder.graph.nodes)

\* C15 as stated: the call returns, and the loop has popped at most |nodes|
\* files whenever it runs.
C15_PopsWithinNodes ==
    /\ <>Analysed
    /\ [](Searching => returned.pops <= NodeCount)

\* C15: the call returns, and the loop has popped at most as many files as
\* changed_files has entries plus the graph has nodes; when it ends it has
\* popped one file per entry of changed_files and one per impacted file.
C15_Terminates ==
    /\ <>Analysed
    /\ [](Searching => returned.pops <= Len(query) + NodeCount)
    /\ []((Searching /\ returned.queue = << >>) =>
            returned.pops = Len(query) + Cardinality(returned.impacted \ elements(query)))

\* .c.ts and lib/.d.ts import one another, .c.ts was given twice, and the
\* loop has ended after three pops on a graph of two nodes.
C15_Witness ==
    /\ Searching
    /\ returned.queue = << >>
    /\ query = <<Key_c, Key_c>>
    /\ DOMAIN builder.graph.nodes = {Key_c, Key_d}
    /\ DOMAIN builder.graph.edges = {Key_c, Key_d}
    /\ builder.graph.edges[Key_c] = <<Key_d>>
    /\ builder.graph.edges[Key_d] = <<Key_c>>
    /\ returned.pops = 3

(***************************************************************************)
(* Properties of edge building.                                            *)
(***************************************************************************)
\* The canonical extension is the one resolve_import_path appends.
StripCanonical(path) ==
    IF Len(path) >= 3 /\ SubSeq(path, Len(path) - 2, Len(path)) = <<".", "t", "s">>
    THEN SubSeq(path, 1, Len(path) - 3)
    ELSE path

\* The three rules: equality, the specifier a suffix of the key, equality
\* once the canonical extension is stripped from both.
ByRule(key, specifier) ==
    \/ key = specifier
    \/ /\ Len(specifier) <= Len(key)
       /\ SubSeq(key, Len(key) - Len(specifier) + 1, Len(key)) = specifier
    \/ StripCanonical(key) = StripCanonical(specifier)

RuleMatches(specifier) == {key \in DOMAIN builder.graph.nodes : ByRule(key, specifier)}

EdgesBuilt == returned = Ok

\* C13: each dependency list holds, in the order of the node's imports, one
\* node key per import that some key matches by one of the three rules, that
\* key matching it by a rule, and nothing for an import no key matches.
C13_NoDanglingEdge ==
    EdgesBuilt =>
        \A k \in DOMAIN builder.graph.edges :
            LET kept == SelectSeq(builder.graph.nodes[k].imports,
                                  LAMBDA i : RuleMatches(i) # {})
                deps == builder.graph.edges[k]
            IN  /\ Len(deps) = Len(kept)
                /\ \A j \in 1..Len(deps) : deps[j] \in RuleMatches(kept[j])

\* The keys of the node set the code's test accepts for the specifier.
Accepted(specifier) ==
    {key \in DOMAIN builder.graph.nodes : matches(key, specifier)}

\* No import of the node set is accepted by more than one key.
SingleMatch ==
    \A k \in DOMAIN builder.graph.nodes :
        \A i \in elements(builder.graph.nodes[k].imports) : Cardinality(Accepted(i)) <= 1

\* Every edge-build from the node set yields the edges that are there.
SameEdgesAgain ==
    \A keys \in Orders(DOMAIN builder.graph.nodes) :
        build_edges(builder.graph, keys).edges = builder.graph.edges

\* C14 as stated: once edges are built, every edge-build from the same node
\* set yields the same edges, for every node set.
C14_EdgesDeterminedAlways == EdgesBuilt => SameEdgesAgain

\* C14: once edges are built from a node set none of whose imports is
\* accepted by more than one key, every edge-build from that node set yields
\* the same edges.
C14_EdgesDetermined == (EdgesBuilt /\ SingleMatch) => SameEdgesAgain

\* Two nodes, one of them with two imports, each matched by one key.
C14_Witness ==
    /\ EdgesBuilt
    /\ SingleMatch
    /\ DOMAIN builder.graph.nodes = {<<".", "c", ".", "t", "s">>, <<".", "c", ".", "t", "s", "x">>}
    /\ builder.graph.nodes[<<".", "c", ".", "t", "s", "x">>].imports = <<<<".", "c", ".", "t", "s">>, <<".", "c", "x", ".", "t", "s">>>>
    /\ builder.graph.edges[<<".", "c", ".", "t", "s", "x">>] = <<<<".", "c", ".", "t", "s">>, <<".", "c", ".", "t", "s", "x">>>>
    /\ builder.graph.edges[<<".", "c", ".", "t", "s">>] = << >>

(***************************************************************************)
(* Properties of the Engine.                                               *)
(***************************************************************************)
\* C9: analyze_impact on an Engine none of whose builds has succeeded returns
\* GraphNotBuilt and leaves the Engine without a graph; after a build that
\* succeeded it returns an ImpactAnalysis.
C9_GraphNotBuilt ==
    [][(UNCHANGED <<fs, engine>> /\ EngineAnalyzeImpact) =>
          IF engine.built
          THEN reply'.kind = "ImpactAnalysis"
          ELSE reply' = Err("GraphNotBuilt") /\ engine'.dep_graph = None]_vars

\* An analysis was refused on a workspace that has an unreadable file.
C9_Witness ==
    /\ reply = Err("GraphNotBuilt")
    /\ ~engine.built
    /\ \E f \in Eligible : fs[f] = Unreadable

\* The Engine holds a graph built on the root that does not exist.
OnMissingRoot ==
    engine.dep_graph # None /\ engine.dep_graph[1].workspace_root = MissingRoot

\* C11: build_graph on a root that does not exist returns Ok and leaves the
\* graph without nodes and without edges, and an impact query on that graph
\* returns no impacted file.
C11_MissingRoot ==
    [][/\ \A outcome \in build_graph_outcomes(DependencyGraphBuilder_new(MissingRoot), fs) :
             /\ outcome.ok
             /\ DOMAIN outcome.builder.graph.nodes = {}
             /\ DOMAIN outcome.builder.graph.edges = {}
       /\ (UNCHANGED <<fs, engine>> /\ OnMissingRoot /\ EngineAnalyzeImpact) =>
              reply'.kind = "ImpactAnalysis" /\ reply'.impacted_files = << >>]_vars

\* a.ts is in the workspace and was given as changed to a graph built on the
\* missing root.
C11_Witness ==
    /\ OnMissingRoot
    /\ fs[File_a] \in TextsOf(File_a)
    /\ reply.kind = "ImpactAnalysis"
    /\ reply.changed_files = <<Key_a>>
    /\ reply.impacted_files = << >>
    /\ DOMAIN engine.dep_graph[1].graph.nodes = {}

\* C17: a query leaves the Engine's graph as it was; and a query that follows
\* an answered query with no build in between, the workspace edited or not,
\* answers with the same changed files, the same impacted set and the same
\* risk level.
C17_QueryIsPure ==
    [][(UNCHANGED fs /\ EngineAnalyzeImpact) =>
          /\ engine' = engine
          /\ reply.kind = "ImpactAnalysis" =>
                /\ reply'.kind = "ImpactAnalysis"
                /\ reply'.changed_files = reply.changed_files
                /\ elements(reply'.impacted_files) = elements(reply.impacted_files)
                /\ Len(reply'.impacted_files) = Len(reply.impacted_files)
                /\ reply'.risk_level = reply.risk_level]_vars

\* Two files are impacted, in one of two orders, and the workspace was edited
\* after the build.
C17_Witness ==
    /\ reply.kind = "ImpactAnalysis"
    /\ Len(reply.impacted_files) = 2
    /\ edits = MaxEdits
    /\ engine.dep_graph # None

(***************************************************************************)
(* Properties of the scanner.                                              *)
(***************************************************************************)
Parsed == response # Nothing /\ response.kind = "AstNode"

\* The lines of the parsed text.
ScannedLines == lines(request.content)

\* The line matches the function, the class or the import pattern.
MatchesFunction(line) == extract_function_name(trim(line)) # None
MatchesClass(line) == extract_class_name(trim(line)) # None
MatchesImport(line) == extract_import_name(trim(line)) # None

MatchesDeclaration(line) ==
    MatchesFunction(line) \/ MatchesClass(line) \/ MatchesImport(line)

\* C21: the function, class and import patterns exclude one another: no line
\* matches two of them, and the root has as many children as the text has
\* lines that match a pattern.
C21_PatternsExclusive ==
    Parsed =>
       /\ \A i \in 1..Len(ScannedLines) :
             /\ ~(MatchesFunction(ScannedLines[i]) /\ MatchesClass(ScannedLines[i]))
             /\ ~(MatchesFunction(ScannedLines[i]) /\ MatchesImport(ScannedLines[i]))
             /\ ~(MatchesClass(ScannedLines[i]) /\ MatchesImport(ScannedLines[i]))
       /\ Len(response.root.children) =
             Cardinality({i \in 1..Len(ScannedLines) : MatchesDeclaration(ScannedLines[i])})

\* The name the pattern of kind node_type finds on the line.
NameFound(node_type, line) ==
    CASE node_type = "FunctionDeclaration" -> extract_function_name(trim(line))
      [] node_type = "ClassDeclaration" -> extract_class_name(trim(line))
      [] node_type = "ImportDeclaration" -> extract_import_name(trim(line))
      [] OTHER -> None

\* C22: the tree the scanner returns is one level deep: the root is a Program
\* without a name; every child has a name, has no children, and starts and
\* ends on the line of the text, counted from 1, on which the pattern of its
\* kind finds its name; the children are in non-decreasing line order.
C22_ShallowTree ==
    Parsed =>
       /\ response.root.node_type = "Program"
       /\ response.root.name = None
       /\ \A k \in 1..Len(response.root.children) :
             /\ response.root.children[k].name # None
             /\ response.root.children[k].children = << >>
             /\ response.root.children[k].start_line = response.root.children[k].end_line
             /\ response.root.children[k].start_line \in 1..Len(ScannedLines)
             /\ NameFound(response.root.children[k].node_type,
                          ScannedLines[response.root.children[k].start_line])
                   = response.root.children[k].name
       /\ \A k \in 2..Len(response.root.children) :
             response.root.children[k - 1].start_line <= response.root.children[k].start_line

\* A line that declares nothing comes first, the second line gives two
\* children and the third gives one.
C22_Witness ==
    /\ Parsed
    /\ ScannedLines = <<Line_body, Line_member, Line_old>>
    /\ Len(response.root.children) = 3
    /\ response.root.children[1].start_line = 2
    /\ response.root.children[2].start_line = 2
    /\ response.root.children[3].start_line = 3

\* The graph the Engine holds is whole: every node has its list of edges.
HeldGraphWhole ==
    engine.dep_graph # None =>
       DOMAIN engine.dep_graph[1].graph.nodes = DOMAIN engine.dep_graph[1].graph.edges

\* C26: a build_dependency_graph that returns an error leaves the Engine with
\* the graph it held before the call, or with none if it held none; the graph
\* held is never one a failed build left partly made; and an analyze_impact
\* that follows the failed build answers from the graph held before it.
C26_FailedRebuildKeepsSnapshot ==
    /\ []HeldGraphWhole
    /\ [][/\ reply' = Err("Io") => engine' = engine
          /\ (reply = Err("Io") /\ UNCHANGED <<fs, engine>> /\ EngineAnalyzeImpact) =>
                IF engine.dep_graph = None
                THEN reply' = Err("GraphNotBuilt")
                ELSE /\ reply'.kind = "ImpactAnalysis"
                     /\ elements(reply'.impacted_files) =
                           impacted_set(engine.dep_graph[1].graph, query)]_vars

\* A rebuild failed on a file that became unreadable after the build, and
\* the Engine still holds the graph of that build, the unreadable file in it.
C26_Witness ==
    /\ reply = Err("Io")
    /\ engine.dep_graph # None
    /\ edits = MaxEdits
    /\ \E f \in Eligible :
          /\ fs[f] = Unreadable
          /\ RelativePathOf[<<WorkspaceRoot, f>>] \in DOMAIN engine.dep_graph[1].graph.nodes

(***************************************************************************)
(* engine.rs: sessions.  Here engine holds the Engine's fields db, session *)
(* and diff_tracker; fs is what is on disk in the shadow directory, the    *)
(* current_session record of session.db, which outlives the Engine; edits  *)
(* counts the sessions made so far (a new id for each); returned is        *)
(* history: the last of this Engine's start_session and stop_session calls *)
(* that returned Ok.  Every call that touches the disk may fail.           *)
(***************************************************************************)
MaxSessions == 3

ShadowDir == ".shadow"

\* The files under the current directory that DiffTracker tracks.
TrackedFiles == {"a.ts", "Cargo.toml"}

SessionEngine_new == [db |-> None, session |-> None, diff_tracker |-> None]

Session_new(id) == [id |-> id]

InitSession ==
    /\ engine = SessionEngine_new
    /\ fs = [current_session |-> None]
    /\ edits = 0
    /\ reply = Nothing
    /\ returned = Nothing
    /\ query = << >>
    /\ builder = DependencyGraphBuilder_new(WorkspaceRoot)
    /\ request = Nothing
    /\ response = Nothing

\* The process ends and another one makes its Engine: Engine::new().  The
\* shadow directory stays as it is.
NewEngine ==
    /\ engine' = SessionEngine_new
    /\ reply' = Nothing
    /\ returned' = Nothing
    /\ UNCHANGED <<fs, builder, query, edits, request, response>>

\* engine.initialize(".shadow"): DB::open fails while this Engine holds the
\* store open, and may fail otherwise.
Initialize ==
    /\ \E opened \in (IF engine.db = None THEN BOOLEAN ELSE {FALSE}) :
          IF opened
          THEN /\ engine' = [engine EXCEPT
                                !.db = Some(ShadowDir),
                                !.diff_tracker = Some([tracked_files |-> {}, diffs |-> << >>])]
               /\ reply' = Ok
          ELSE /\ engine' = engine
               /\ reply' = Err("Db")
    /\ UNCHANGED <<fs, builder, query, returned, edits, request, response>>

\* start_session with the session Session::new() made: the states it may leave
\* and what it returns.  put: db.put went through; tracked: start_tracking
\* went through; seen: the files scan_directory inserted before it failed.
start_session(e, store, session) ==
    IF e.session # None
    THEN {[engine |-> e, store |-> store, reply |-> Err("Session already active")]}
    ELSE UNION {
           IF e.db # None /\ ~put
           THEN {[engine |-> e, store |-> store, reply |-> Err("Db")]}
           ELSE IF e.diff_tracker = None
           THEN {[engine |-> [e EXCEPT !.session = Some(session)],
                  store  |-> IF e.db # None
                             THEN [store EXCEPT !.current_session = Some(session)]
                             ELSE store,
                  reply  |-> [kind |-> "SessionId", id |-> session.id]]}
           ELSE {[engine |-> [e EXCEPT
                                !.session = Some(session),
                                !.diff_tracker =
                                    Some([e.diff_tracker[1] EXCEPT
                                            !.tracked_files =
                                                @ \cup (IF tracked THEN TrackedFiles ELSE seen)])],
                  store  |-> IF e.db # None
                             THEN [store EXCEPT !.current_session = Some(session)]
                             ELSE store,
                  reply  |-> IF tracked
                             THEN [kind |-> "SessionId", id |-> session.id]
                             ELSE Err("Io")] :
                   tracked \in BOOLEAN, seen \in SUBSET TrackedFiles} :
           put \in BOOLEAN}

\* engine.start_session()
StartSession ==
    /\ edits < MaxSessions
    /\ \E outcome \in start_session(engine, fs, Session_new(edits + 1)) :
          /\ engine' = outcome.engine
          /\ fs' = outcome.store
          /\ reply' = outcome.reply
          /\ returned' = IF outcome.reply.kind = "SessionId" THEN [kind |-> "start_session"] ELSE returned
    /\ edits' = IF engine.session = None THEN edits + 1 ELSE edits
    /\ UNCHANGED <<builder, query, request, response>>

\* stop_session: the states it may leave and what it returns.  deleted:
\* db.delete went through; cleared: clear_diffs went through.
stop_session(e, store) ==
    IF e.session = None
    THEN {[engine |-> e, store |-> store, reply |-> Err("No active session")]}
    ELSE UNION {
           IF e.db # None /\ ~deleted
           THEN {[engine |-> e, store |-> store, reply |-> Err("Db")]}
           ELSE IF e.diff_tracker = None
           THEN {[engine |-> [e EXCEPT !.session = None],
                  store  |-> IF e.db # None
                             THEN [store EXCEPT !.current_session = None]
                             ELSE store,
                  reply  |-> Ok]}
           ELSE {[engine |-> [e EXCEPT
                                !.session = IF cleared THEN None ELSE @,
                                !.diff_tracker =
                                    Some([tracked_files |-> {}, diffs |-> << >>])],
                  store  |-> IF e.db # None
                             THEN [store EXCEPT !.current_session = None]
                             ELSE store,
                  reply  |-> IF cleared THEN Ok ELSE Err("Io")] :
                   cleared \in BOOLEAN} :
           deleted \in BOOLEAN}

\* engine.stop_session()
StopSession ==
    /\ \E outcome \in stop_session(engine, fs) :
          /\ engine' = outcome.engine
          /\ fs' = outcome.store
          /\ reply' = outcome.reply
          /\ returned' = IF outcome.reply = Ok THEN [kind |-> "stop_session"] ELSE returned
    /\ UNCHANGED <<builder, query, edits, request, response>>

\* get_status: what it may return.
get_status(e, store) ==
    IF e.session # None
    THEN {[kind |-> "SessionStatus", is_active |-> TRUE, session_id |-> Some(e.session[1].id)]}
    ELSE IF e.db # None
    THEN {Err("Db"),
          IF store.current_session # None
          THEN [kind |-> "SessionStatus", is_active |-> TRUE,
                session_id |-> Some(store.current_session[1].id)]
          ELSE [kind |-> "SessionStatus", is_active |-> FALSE, session_id |-> None]}
    ELSE {[kind |-> "SessionStatus", is_active |-> FALSE, session_id |-> None]}

\* engine.get_status()
GetStatus ==
    /\ reply' \in get_status(engine, fs)
    /\ UNCHANGED <<fs, builder, query, returned, engine, edits, request, response>>

NextSession == NewEngine \/ Initialize \/ StartSession \/ StopSession \/ GetStatus

SpecSession == InitSession /\ [][NextSession]_vars

(***************************************************************************)
(* Properties of sessions.                                                 *)
(***************************************************************************)
\* What start_session and stop_session may do in the present state.
StartOutcomes == start_session(engine, fs, Session_new(edits + 1))
StopOutcomes == stop_session(engine, fs)

\* This step is a start_session, or a stop_session, that returned Ok.
StartSucceeds ==
    engine.session = None /\ engine'.session # None /\ reply'.kind = "SessionId"
StopSucceeds ==
    engine.session # None /\ engine'.session = None /\ reply' = Ok

StartRefusedUnchanged ==
    engine.session # None =>
       \A outcome \in StartOutcomes :
          /\ outcome.reply = Err("Session already active")
          /\ outcome.engine = engine
          /\ outcome.store = fs

StopRefusedUnchanged ==
    engine.session = None =>
       \A outcome \in StopOutcomes :
          /\ outcome.reply = Err("No active session")
          /\ outcome.engine = engine
          /\ outcome.store = fs

\* C23: start_session on an Engine with an active session returns "Session
\* already active" and changes neither the session nor the stored record;
\* stop_session without an active session returns "No active session" and
\* changes nothing; and the calls of one Engine that return Ok alternate:
\* of two start_session calls that return Ok with no such stop_session between
\* them, or two stop_session calls with no such start_session between them,
\* there is none.
C23_GuardedAlternation ==
    /\ []StartRefusedUnchanged
    /\ []StopRefusedUnchanged
    /\ [][/\ StartSucceeds => returned.kind # "start_session"
          /\ StopSucceeds => returned.kind # "stop_session"]_vars

\* C24: when get_status reports an active session, stop_session is not refused
\* for want of a session and start_session is refused; when it reports none,
\* start_session is not refused as already active; and right after a
\* stop_session that returned Ok, get_status reports no active session.
C24_StatusAgrees ==
    /\ \A status \in get_status(engine, fs) :
          status.kind = "SessionStatus" =>
             IF status.is_active
             THEN /\ \A outcome \in StopOutcomes :
                        outcome.reply # Err("No active session")
                  /\ \A outcome \in StartOutcomes :
                        outcome.reply = Err("Session already active")
             ELSE \A outcome \in StartOutcomes :
                     outcome.reply # Err("Session already active")
    /\ \A outcome \in StopOutcomes :
          outcome.reply = Ok =>
             \A status \in get_status(outcome.engine, outcome.store) :
                status.kind = "SessionStatus" => ~status.is_active

\* C25: a start_session or stop_session that returns an error leaves the
\* Engine's session and the stored current_session record as they were: no
\* session was made active and no record written by the failed
\* start_session, no session ended and no record deleted by the failed
\* stop_session.
C25_AtomicOnFailure ==
    /\ \A outcome \in StartOutcomes :
          outcome.reply.kind = "Err" =>
             outcome.engine.session = engine.session /\ outcome.store = fs
    /\ \A outcome \in StopOutcomes :
          outcome.reply.kind = "Err" =>
             outcome.engine.session = engine.session /\ outcome.store = fs

====
